---- MODULE Spec2Model ----
(***************************************************************************)
(* KrpSim: scheduling of resource-transforming processes.                  *)
(*                                                                         *)
(* Part 1 models krpsim/simulator.py (Simulator.simulate) as a state       *)
(* machine: each call of simulate is a run that walks its schedule one     *)
(* invocation at a time against a dict copied from Simulator.stocks.       *)
(* Dict objects live in a heap so that copying and aliasing differ.        *)
(* Part 2 models krpsim/genetic_algo.py (genetic_algorithm and the         *)
(* functions it calls).                                                    *)
(***************************************************************************)
EXTENDS Integers, Sequences, FiniteSets, TLC

(* Longest schedule handed to simulate when calls run one at a time. *)
MaxLen == 3
(* Longest schedule handed to simulate when two calls are interleaved. *)
MaxLenConc == 2
(* Size of the population, offspring per generation and generations of the *)
(* genetic algorithm. genetic_algo.py lines 154-156 set each of them to 10; *)
(* the model runs the same loops with smaller numbers.                     *)
NumSchedules == 2
NumOffspring == 2
NumGenerations == 2

(***************************************************************************)
(* Data model: parser.py                                                   *)
(***************************************************************************)

(* parser.Stock: a (name, quantity) pair. *)
Stock(n, q) == [name |-> n, quantity |-> q]

(* parser.Process: need and output are LISTS of Stock, in the order written. *)
Process(n, need, output, t) == [name |-> n, need |-> need, output |-> output, time |-> t]

(* The process lines of the configuration, as parse_process returns them:   *)
(*   MakePlank:(wood:2):(plank:1):5                                         *)
(*   Coppice:(wood:1):(wood:2):4          needs and outputs the same stock  *)
(*   Joint:(wood:2;wood:2):(plank:3):3    names a stock twice in its needs  *)
Processes ==
    << Process("MakePlank", <<Stock("wood", 2)>>, <<Stock("plank", 1)>>, 5),
       Process("Coppice", <<Stock("wood", 1)>>, <<Stock("wood", 2)>>, 4),
       Process("Joint", <<Stock("wood", 2), Stock("wood", 2)>>, <<Stock("plank", 3)>>, 3) >>

ProcNames == {Processes[i].name : i \in DOMAIN Processes}

(* The Process object of a given name. *)
Proc(n) == CHOOSE p \in {Processes[i] : i \in DOMAIN Processes} : p.name = n

(* The stock lines of the configuration: "wood:w". *)
StockLines(w) == [n \in {"wood"} |-> w]

(* parser.update_stocks_quantity: every stock a process names becomes a key, *)
(* at quantity 0 when it is not one yet.                                     *)
UpdateStocksQuantity(stocks, p) ==
    LET named == {p.need[i].name : i \in DOMAIN p.need}
                 \cup {p.output[i].name : i \in DOMAIN p.output}
    IN  [n \in (DOMAIN stocks) \cup named |->
            IF n \in DOMAIN stocks THEN stocks[n] ELSE 0]

RECURSIVE UpdateAll(_, _)
UpdateAll(stocks, i) ==
    IF i > Len(Processes) THEN stocks
    ELSE UpdateAll(UpdateStocksQuantity(stocks, Processes[i]), i + 1)

(* The stocks dict parse_lines returns for the stock line wood:w followed by *)
(* the process lines.                                                        *)
ParseLinesStocks(w) == UpdateAll(StockLines(w), 1)

(***************************************************************************)
(* Simulator.simulate: simulator.py                                        *)
(***************************************************************************)

(* stocks.get(name, 0) *)
Get(stocks, n) == IF n \in DOMAIN stocks THEN stocks[n] ELSE 0

AvailableStrict(p, stocks) ==
    \A i \in DOMAIN p.need : Get(stocks, p.need[i].name) > p.need[i].quantity

(* line 28: every need entry, taken on its own, is covered by the stocks. *)
Available(p, stocks) ==
    \A i \in DOMAIN p.need : Get(stocks, p.need[i].name) >= p.need[i].quantity

RECURSIVE ConsumeFrom(_, _, _)
ConsumeFrom(need, i, stocks) ==
    IF i > Len(need) THEN stocks
    ELSE ConsumeFrom(need, i + 1,
                     [stocks EXCEPT ![need[i].name] = @ - need[i].quantity])

(* lines 30-31: for need in process.need: stocks[need.name] -= need.quantity *)
ConsumeNeeds(p, stocks) == ConsumeFrom(p.need, 1, stocks)

RECURSIVE ProduceFrom(_, _, _)
ProduceFrom(output, i, stocks) ==
    IF i > Len(output) THEN stocks
    ELSE ProduceFrom(output, i + 1,
                     [stocks EXCEPT ![output[i].name] = @ + output[i].quantity])

ProduceNothing(p, stocks) == stocks

(* lines 32-33: for output in process.output: stocks[output.name] += ... *)
ProduceOutputs(p, stocks) == ProduceFrom(p.output, 1, stocks)

InSeq(x, s) == \E i \in DOMAIN s : s[i] = x

RECURSIVE GainFrom(_, _, _)
GainFrom(output, i, opt) ==
    IF i > Len(output) THEN 0
    ELSE (IF InSeq(output[i].name, opt) THEN output[i].quantity ELSE 0)
         + GainFrom(output, i + 1, opt)

(* lines 39-41: the quantities of the outputs named in self.optimize. *)
Gain(p, opt) == GainFrom(p.output, 1, opt)

AtBudget(t, d) == t >= d

(* line 36: if time > self.delay *)
OverBudget(t, d) == t > d

FitnessBeforeBreak(f, p, t, d, opt) == f + Gain(p, opt)

(* lines 36-41: the break comes before the fitness is increased. *)
FitnessAfter(f, p, t, d, opt) == IF OverBudget(t, d) THEN f ELSE f + Gain(p, opt)

AliasTarget(r) == 0

(* lines 21-23: stocks = self.stocks.copy() gives run r a dict of its own.  *)
(* Object 0 is Simulator.stocks, object r is the copy made by run r.        *)
CopyTarget(r) == r

StopAt(i, n) == [pc |-> "done", idx |-> i]

(* line 26: the for loop moves to the next invocation, or ends. *)
Advance(i, n) == IF i < n THEN [pc |-> "check", idx |-> i + 1]
                 ELSE [pc |-> "done", idx |-> i + 1]

(* lines 26-28: an unavailable process is passed over by the loop. *)
Skip(i, n) == Advance(i, n)

Runs == {1, 2}

(* A dict object o comes to exist, or is overwritten, with the content v. *)
Bind(h, o, v) == [x \in (DOMAIN h) \cup {o} |-> IF x = o THEN v ELSE h[x]]

(* Every list of at most k processes of the catalogue. *)
Schedules(k) == UNION {[1..n -> ProcNames] : n \in 0..k}

InitialWood == {1, 3, 4, 10}
Delays == {4, 7, 12, 20}
Optimizes == {<<"plank">>, <<"wood", "plank">>}

VARIABLES
    wood,       \* the quantity on the configuration's stock line
    heap,       \* the dict objects that exist: heap[0] is the stocks dict
                \* handed to Simulator and to genetic_algorithm
    optimize,   \* Simulator.optimize
    delay,      \* Simulator.delay
    pc,         \* pc[r]: where run r is: "idle", "check", "apply", "done"
    sched,      \* sched[r]: schedule.processes of run r, as process names
    idx,        \* idx[r]: position of the loop of run r in its schedule
    ref,        \* ref[r]: the object the local name stocks of run r is bound to
    time,       \* time[r]: the local time
    fitness,    \* fitness[r]: the local fitness, returned at "done"
    applied,    \* applied[r]: positions whose process was applied, in order
    ga_pc,      \* where genetic_algorithm is: "off", "start", "reproduce",
                \* "selection", "returned", "raised"
    population, \* the local population of genetic_algorithm: a list of Schedule
    offspring,  \* the local offspring of reproduce
    generation, \* the loop variable of genetic_algorithm
    ga_error,   \* the exception genetic_algorithm ended with, or "none"
    last,       \* the last call made on the population and how it ended
    g_pc,       \* where the caller of Graph is: "off", "new", "built", "sorted",
                \* "rooted", "expanded", "returned", "raised"
    process,    \* Graph.process: the catalogue the graph was built with
    g_optimize, \* Graph.optimize: the name of the stock to optimize
    needs,      \* Graph.needs: stock name -> names of the processes needing it
    outputs,    \* Graph.outputs: stock name -> names of the processes making it
    nodes,      \* the Node objects made so far; node k owns the dict heap[-k]
    g_error,    \* the exception a Graph method ended with, or "none"
    g_result,   \* what get_sequences returned
    g_call,     \* the Graph or Node operation called last, or "none"
    p_pc,       \* where parse_lines is: "off", "lines", "returned", "raised"
    p_file,     \* the lines given to parse_lines
    p_line,     \* how many lines the loop of parse_lines has read
    p_status,   \* the local status of parse_lines
    p_stocks,   \* the local stocks of parse_lines
    p_processes,\* the local processes of parse_lines
    p_optimize, \* the local optimize of parse_lines
    p_error,    \* the exception parse_lines ended with, or "none"
    p_call      \* the line parser called in the last turn, or "none"

inputVars == <<wood, heap, optimize, delay>>

runVars == <<pc, sched, idx, ref, time, fitness, applied>>

gaVars == <<ga_pc, population, offspring, generation, ga_error, last>>

graphVars ==
    <<g_pc, process, g_optimize, needs, outputs, nodes, g_error, g_result, g_call>>

parseVars ==
    <<p_pc, p_file, p_line, p_status, p_stocks, p_processes, p_optimize,
      p_error, p_call>>

vars == <<wood, heap, optimize, delay, pc, sched, idx, ref, time, fitness, applied,
          ga_pc, population, offspring, generation, ga_error, last,
          g_pc, process, g_optimize, needs, outputs, nodes, g_error, g_result,
          g_call, p_pc, p_file, p_line, p_status, p_stocks, p_processes,
          p_optimize, p_error, p_call>>

(* Python's None. *)
None == "None"

(* No call has been made on the population yet. *)
NoCall ==
    [op |-> "none", self |-> 0, other |-> 0, c |-> 0, i |-> 0, j |-> 0,
     num_parents |-> 0, error |-> "none", parents |-> <<>>]

(* parse_lines has not been called. *)
NoParse ==
    /\ p_pc = "off"
    /\ p_file = <<>>
    /\ p_line = 0
    /\ p_status = "stock"
    /\ p_stocks = <<>>
    /\ p_processes = <<>>
    /\ p_optimize = <<>>
    /\ p_error = "none"
    /\ p_call = "none"

(* No Graph has been constructed. *)
NoGraph ==
    /\ g_pc = "off"
    /\ process = <<>>
    /\ g_optimize = ""
    /\ needs = <<>>
    /\ outputs = <<>>
    /\ nodes = <<>>
    /\ g_error = "none"
    /\ g_result = None
    /\ g_call = "none"

InitSim(woods, delays, opts) ==
    /\ wood \in woods
    /\ heap = [o \in {0} |-> ParseLinesStocks(wood)]
    /\ optimize \in opts
    /\ delay \in delays
    /\ pc = [r \in Runs |-> "idle"]
    /\ sched = [r \in Runs |-> <<>>]
    /\ idx = [r \in Runs |-> 1]
    /\ ref = [r \in Runs |-> r]
    /\ time = [r \in Runs |-> 0]
    /\ fitness = [r \in Runs |-> 0]
    /\ applied = [r \in Runs |-> <<>>]
    /\ ga_pc = "off"
    /\ population = <<>>
    /\ offspring = <<>>
    /\ generation = 0
    /\ ga_error = "none"
    /\ last = NoCall
    /\ NoGraph
    /\ NoParse

(* lines 20-26: a call of simulate(schedule) copies the stocks, zeroes time *)
(* and fitness and enters the loop; an empty schedule returns 0 at once.    *)
Call(r, k) ==
    /\ pc[r] \in {"idle", "done"}
    /\ \E s \in Schedules(k) :
        /\ sched' = [sched EXCEPT ![r] = s]
        /\ pc' = [pc EXCEPT ![r] = IF s = <<>> THEN "done" ELSE "check"]
    /\ heap' = Bind(heap, CopyTarget(r), heap[0])
    /\ ref' = [ref EXCEPT ![r] = CopyTarget(r)]
    /\ idx' = [idx EXCEPT ![r] = 1]
    /\ time' = [time EXCEPT ![r] = 0]
    /\ fitness' = [fitness EXCEPT ![r] = 0]
    /\ applied' = [applied EXCEPT ![r] = <<>>]
    /\ UNCHANGED <<wood, optimize, delay>>
    /\ UNCHANGED gaVars
    /\ UNCHANGED parseVars
    /\ UNCHANGED graphVars

(* line 28: the availability test of the current invocation. *)
Check(r) ==
    /\ pc[r] = "check"
    /\ LET p == Proc(sched[r][idx[r]])
           next == Skip(idx[r], Len(sched[r]))
       IN  IF Available(p, heap[ref[r]])
           THEN /\ pc' = [pc EXCEPT ![r] = "apply"]
                /\ idx' = idx
           ELSE /\ pc' = [pc EXCEPT ![r] = next.pc]
                /\ idx' = [idx EXCEPT ![r] = next.idx]
    /\ UNCHANGED <<wood, heap, optimize, delay, sched, ref, time, fitness, applied>>
    /\ UNCHANGED gaVars
    /\ UNCHANGED parseVars
    /\ UNCHANGED graphVars

(* lines 30-41: consume, produce, advance the time, break when over the     *)
(* delay, otherwise count the optimized outputs and go on.                  *)
Apply(r) ==
    /\ pc[r] = "apply"
    /\ LET p == Proc(sched[r][idx[r]])
           t == time[r] + p.time
           next == IF OverBudget(t, delay) THEN StopAt(idx[r], Len(sched[r]))
                   ELSE Advance(idx[r], Len(sched[r]))
       IN  /\ heap' = [heap EXCEPT ![ref[r]] = ProduceOutputs(p, ConsumeNeeds(p, @))]
           /\ time' = [time EXCEPT ![r] = t]
           /\ fitness' = [fitness EXCEPT ![r] = FitnessAfter(@, p, t, delay, optimize)]
           /\ applied' = [applied EXCEPT ![r] = Append(@, idx[r])]
           /\ pc' = [pc EXCEPT ![r] = next.pc]
           /\ idx' = [idx EXCEPT ![r] = next.idx]
    /\ UNCHANGED <<wood, optimize, delay, sched, ref>>
    /\ UNCHANGED gaVars
    /\ UNCHANGED parseVars
    /\ UNCHANGED graphVars

RECURSIVE SimAlone(_, _, _, _, _, _, _)
(* lines 20-42 as a function: the fitness simulate returns for schedule s   *)
(* from position i on, when nothing else runs.                              *)
SimAlone(s, i, stocks, t, f, d, opt) ==
    IF i > Len(s) THEN f
    ELSE LET p == Proc(s[i])
         IN  IF Available(p, stocks)
             THEN LET t2 == t + p.time
                  IN  IF OverBudget(t2, d) THEN f
                      ELSE SimAlone(s, i + 1, ProduceOutputs(p, ConsumeNeeds(p, stocks)),
                                    t2, f + Gain(p, opt), d, opt)
             ELSE SimAlone(s, i + 1, stocks, t, f, d, opt)

(* One simulate call at a time, on schedules of up to MaxLen invocations. *)
Init == InitSim(InitialWood, Delays, Optimizes)

Next == Call(1, MaxLen) \/ Check(1) \/ Apply(1)

Spec == Init /\ [][Next]_vars

(* Two simulate calls on the same Simulator, interleaved step by step. *)
InitConc == InitSim({3, 10}, {4, 12}, {<<"plank">>})

NextConc == \E r \in Runs : Call(r, MaxLenConc) \/ Check(r) \/ Apply(r)

SpecConc == InitConc /\ [][NextConc]_vars

(***************************************************************************)
(* genetic_algorithm: genetic_algo.py                                      *)
(***************************************************************************)

(* The dataclass Schedule, lines 15-18: processes is a list of its own,    *)
(* stocks names a dict object of the heap.                                 *)
Schedule(processes, stocks, opt, d) ==
    [processes |-> processes, stocks |-> stocks, optimize |-> opt, delay |-> d]

RECURSIVE StockSum(_, _, _)
(* lines 30-32: the quantities of the optimized stocks that are keys. *)
StockSum(opt, i, stocks) ==
    IF i > Len(opt) THEN 0
    ELSE (IF opt[i] \in DOMAIN stocks THEN stocks[opt[i]] ELSE 0)
         + StockSum(opt, i + 1, stocks)

RECURSIVE TotalTime(_, _)
(* lines 35-37: the summed time of the processes of the schedule. *)
TotalTime(processes, i) ==
    IF i > Len(processes) THEN 0
    ELSE Proc(processes[i]).time + TotalTime(processes, i + 1)

(* Schedule.fitness(), lines 20-42, of schedule s whose stocks dict holds h. *)
ScheduleFitness(s, h) ==
    StockSum(s.optimize, 1, h)
    + (IF TotalTime(s.processes, 1) <= s.delay THEN 1 ELSE 0)

(* line 98: what random.sample(processes, k) can return for k in 1..len. *)
Samples ==
    {s \in Schedules(Len(Processes)) :
        s # <<>> /\ \A i, j \in DOMAIN s : i # j => s[i] # s[j]}

(* line 49: random.randint(1, len(self.processes) - 1); the range is empty, *)
(* and randint raises ValueError, when the schedule holds one process.      *)
CrossoverPoints(self) == 1 .. (Len(self.processes) - 1)

(* lines 53-58: the child takes self's first c processes, other's from c on, *)
(* and self's stocks, optimize and delay.                                    *)
Crossover(self, other, c) ==
    Schedule(SubSeq(self.processes, 1, c)
                \o SubSeq(other.processes, c + 1, Len(other.processes)),
             self.stocks, self.optimize, self.delay)

(* A mutation that copies the process at j over the one at i. *)
MutateOverwrite(self, i, j) ==
    [self EXCEPT !.processes = [@ EXCEPT ![i + 1] = self.processes[j + 1]]]

(* lines 67-71: swap the processes at the 0-based positions i and j. *)
Mutate(self, i, j) ==
    [self EXCEPT !.processes =
        [@ EXCEPT ![i + 1] = self.processes[j + 1], ![j + 1] = self.processes[i + 1]]]

(* line 106: def selection(population, num_parents) *)
SelectionParams == <<"population", "num_parents">>

(* line 162: selection(population) *)
SelectionArgs == <<"population">>

(* lines 117-127 with the call of line 162: binding the arguments fails    *)
(* with TypeError when their number is not the number of parameters; so    *)
(* does line 117 on a population that is not empty, where sum() adds the   *)
(* bound methods schedule.fitness. An empty population yields no parents.  *)
Selection(pop, args) ==
    IF Len(args) # Len(SelectionParams) THEN [error |-> "TypeError", parents |-> <<>>]
    ELSE IF pop # <<>> THEN [error |-> "TypeError", parents |-> <<>>]
    ELSE [error |-> "none", parents |-> <<>>]

InitGA ==
    /\ wood = 10
    /\ heap = [o \in {0} |-> ParseLinesStocks(wood)]
    /\ optimize = <<"plank">>
    /\ delay \in {7, 12}
    /\ pc = [r \in Runs |-> "idle"]
    /\ sched = [r \in Runs |-> <<>>]
    /\ idx = [r \in Runs |-> 1]
    /\ ref = [r \in Runs |-> r]
    /\ time = [r \in Runs |-> 0]
    /\ fitness = [r \in Runs |-> 0]
    /\ applied = [r \in Runs |-> <<>>]
    /\ ga_pc = "start"
    /\ population = <<>>
    /\ offspring = <<>>
    /\ generation = 0
    /\ ga_error = "none"
    /\ last = NoCall
    /\ NoGraph
    /\ NoParse

(* lines 154-159 with 95-103: initialize_population draws num_schedules    *)
(* samples; schedule i gets the copy i of the stocks.                      *)
InitializePopulation ==
    /\ ga_pc = "start"
    /\ \E draw \in [1..NumSchedules -> Samples] :
          population' = [i \in 1..NumSchedules |->
                            Schedule(draw[i], i, optimize, delay)]
    /\ heap' = [o \in 0..NumSchedules |-> heap[0]]
    /\ offspring' = <<>>
    /\ generation' = 0
    /\ ga_pc' = IF generation' < NumGenerations THEN "reproduce" ELSE "returned"
    /\ UNCHANGED <<wood, optimize, delay, ga_error>>
    /\ UNCHANGED runVars
    /\ UNCHANGED parseVars
    /\ UNCHANGED <<last, graphVars>>

(* lines 142-147, one turn of the loop of reproduce, and line 161 after    *)
(* the last turn: two parents drawn from the population, crossover, mutate. *)
ReproduceOne ==
    /\ ga_pc = "reproduce"
    /\ \E a, b \in DOMAIN population :
          LET parent1 == population[a]
              parent2 == population[b]
          IN  IF CrossoverPoints(parent1) = {}
              THEN /\ ga_pc' = "raised"
                   /\ ga_error' = "ValueError"
                   /\ UNCHANGED <<population, offspring>>
              ELSE \E c \in CrossoverPoints(parent1) :
                     LET child == Crossover(parent1, parent2, c)
                     IN  \E i, j \in 0 .. (Len(child.processes) - 1) :
                            LET all == Append(offspring, Mutate(child, i, j))
                            IN  /\ ga_error' = ga_error
                                /\ IF Len(all) < NumOffspring
                                   THEN /\ offspring' = all
                                        /\ population' = population
                                        /\ ga_pc' = "reproduce"
                                   ELSE /\ offspring' = <<>>
                                        /\ population' = all
                                        /\ ga_pc' = "selection"
    /\ UNCHANGED generation
    /\ UNCHANGED inputVars
    /\ UNCHANGED runVars
    /\ UNCHANGED parseVars
    /\ UNCHANGED <<last, graphVars>>

(* lines 162-163 and the loop of line 160: the call of selection, then the *)
(* next generation or the return of the best schedule.                     *)
SelectionStep ==
    /\ ga_pc = "selection"
    /\ LET out == Selection(population, SelectionArgs)
       IN  IF out.error # "none"
           THEN /\ ga_pc' = "raised"
                /\ ga_error' = out.error
                /\ UNCHANGED <<population, generation>>
           ELSE /\ population' = out.parents
                /\ generation' = generation + 1
                /\ ga_error' = ga_error
                /\ ga_pc' = IF generation' < NumGenerations THEN "reproduce"
                            ELSE "returned"
    /\ UNCHANGED offspring
    /\ UNCHANGED inputVars
    /\ UNCHANGED runVars
    /\ UNCHANGED parseVars
    /\ UNCHANGED <<last, graphVars>>

NextGA == InitializePopulation \/ ReproduceOne \/ SelectionStep

SpecGA == InitGA /\ [][NextGA]_vars

(***************************************************************************)
(* Graph: graph.py                                                         *)
(***************************************************************************)

(* The largest quantity of a stock in the dict handed to Graph. *)
MaxStock == 5

(* The dataclass Exec, lines 22-23. *)
Exec(name, times) == [name |-> name, times |-> times]

(* The dataclass Node, lines 39-41: stock names a dict object of the heap. *)
Node(plist, stock, depth) == [plist |-> plist, stock |-> stock, depth |-> depth]

(* graph.py reads Process.need and Process.output as dicts, stock name ->  *)
(* quantity (lines 127, 129, 162, 167): here a dict is its list of items   *)
(* in insertion order, the names distinct. HasKey is `n in d`.             *)
HasKey(d, n) == \E i \in DOMAIN d : d[i].name = n

(* d[n] of such a dict. *)
Item(d, n) == (CHOOSE e \in {d[i] : i \in DOMAIN d} : e.name = n).quantity

(* A catalogue where two processes make the same stock in different       *)
(* quantities.                                                             *)
Workshop ==
    << Process("MakeChair", <<Stock("plank", 5)>>, <<Stock("chair", 1)>>, 7),
       Process("MakePlank", <<Stock("wood", 2)>>, <<Stock("plank", 1)>>, 5),
       Process("SawMill", <<Stock("wood", 3)>>, <<Stock("plank", 2)>>, 6) >>

(* A catalogue with a resource cycle: A needs what B makes and B what A    *)
(* makes.                                                                  *)
Loop ==
    << Process("A", <<Stock("y", 1)>>, <<Stock("x", 1)>>, 1),
       Process("B", <<Stock("x", 1)>>, <<Stock("y", 1)>>, 1) >>

(* The catalogues a Graph is constructed with, line 91; one is empty. *)
(* The workshop with a process that makes wood out of nothing. *)
Forest == Workshop \o << Process("Fell", <<>>, <<Stock("wood", 4)>>, 2) >>

(* A process with two needs: MA makes a, at quantity 0, and no process     *)
(* makes b.                                                                *)
Assembly ==
    << Process("Top", <<Stock("a", 2), Stock("b", 3)>>, <<Stock("c", 1)>>, 1),
       Process("MA", <<>>, <<Stock("a", 0)>>, 1) >>

Catalogues == {Workshop, Loop, <<>>, Forest, Assembly}

(* The values of Graph.optimize, line 93; no process makes gold. *)
Targets == {"chair", "plank", "x", "gold", "wood", "c"}

(* The dicts handed to Graph as stock, line 92: some lack the stocks the   *)
(* processes name.                                                         *)
SuppliedStocks ==
    {[n \in {"wood"} |-> w] : w \in 0..MaxStock}
    \cup {[n \in {"wood", "plank"} |-> IF n = "wood" THEN 10 ELSE k] : k \in 0..MaxStock}
    \cup {[n \in {"wood", "plank", "chair", "x", "y"} |-> 0]}
    \cup {[n \in {"a", "b"} |-> IF n = "a" THEN x ELSE y] : x \in 0..2, y \in {0, 3}}

(* self.process[name], line 162. *)
GProc(cat, n) == CHOOSE p \in {cat[i] : i \in DOMAIN cat} : p.name = n

(* lines 135-141: the processes regrouped by the stocks of one side, "need" *)
(* or "output", each list in the order of the catalogue.                    *)
Regroup(cat, side) ==
    LET names == UNION {{cat[i][side][k].name : k \in DOMAIN cat[i][side]} :
                          i \in DOMAIN cat}
    IN  [n \in names |->
            LET has(i) == HasKey(cat[i][side], n)
                at(k) == CHOOSE i \in DOMAIN cat :
                            has(i) /\ Cardinality({m \in 1..i : has(m)}) = k
            IN  [k \in 1..Cardinality({i \in DOMAIN cat : has(i)}) |-> cat[at(k)].name]]

(* lines 138 and 141: self.stock.setdefault(stock, 0) for every stock a    *)
(* process needs or makes.                                                 *)
Setdefault(stocks, names) ==
    [n \in (DOMAIN stocks) \cup names |-> IF n \in DOMAIN stocks THEN stocks[n] ELSE 0]

(* list.sort places x after the entries that do not come after it, so the  *)
(* sort is stable, also with reverse=True.                                 *)
InsertBy(x, s, key, reverse) ==
    LET ahead(y) == IF reverse THEN key[y] >= key[x] ELSE key[y] <= key[x]
        k == Cardinality({i \in DOMAIN s : ahead(s[i])})
    IN  SubSeq(s, 1, k) \o <<x>> \o SubSeq(s, k + 1, Len(s))

RECURSIVE SortBy(_, _, _, _)
(* list.sort(key=..., reverse=...) of the first n entries of list. *)
SortBy(list, n, key, reverse) ==
    IF n = 0 THEN <<>>
    ELSE InsertBy(list[n], SortBy(list, n - 1, key, reverse), key, reverse)

(* lines 126-129: each list of a regrouping sorted by the quantity its     *)
(* processes need (ascending) or make (descending) of the stock.           *)
SortGroups(cat, groups, side, reverse) ==
    [n \in DOMAIN groups |->
        SortBy(groups[n], Len(groups[n]),
               [pn \in {groups[n][i] : i \in DOMAIN groups[n]} |->
                   Item(GProc(cat, pn)[side], n)],
               reverse)]

(* line 163: stock.get(need, 1). *)
StockGet(stock, n, default) == IF n \in DOMAIN stock THEN stock[n] ELSE default

(* math.ceil(a / b) for a >= 0 and b > 0. *)
Ceil(a, b) == (a + b - 1) \div b

(* line 167: ceil(qty / (p.output[need] + stock[need])). *)
Times(qty, made, held) == Ceil(qty, made + held)

(* lines 162-164: the needs of the parent process the stock does not       *)
(* satisfy, in the order of its need dict.                                 *)
Unmet(cat, parent_process, stock) ==
    SelectSeq(GProc(cat, parent_process.name).need,
              LAMBDA e : ~(StockGet(stock, e.name, 1) >= e.quantity))

(* lines 165-168, for one unmet need: self.outputs[need] raises KeyError   *)
(* when no process makes it; for the first process that makes it           *)
(* stock[need] raises KeyError when the stock does not hold it, and the    *)
(* division ZeroDivisionError when the denominator is 0.                   *)
NeedError(cat, outs, stock, e) ==
    IF e.name \notin DOMAIN outs THEN "KeyError"
    ELSE IF outs[e.name] = <<>> THEN "none"
    ELSE IF e.name \notin DOMAIN stock THEN "KeyError"
    ELSE IF \E i \in DOMAIN outs[e.name] :
                Item(GProc(cat, outs[e.name][i]).output, e.name) + stock[e.name] = 0
         THEN "ZeroDivisionError"
         ELSE "none"

(* lines 162-168: the loop goes need by need, so what building the         *)
(* matrices raises is what the first unmet need that fails raises.         *)
MatricesError(cat, outs, parent_process, stock) ==
    LET unmet == Unmet(cat, parent_process, stock)
        failing == {k \in DOMAIN unmet : NeedError(cat, outs, stock, unmet[k]) # "none"}
    IN  IF failing = {} THEN "none"
        ELSE NeedError(cat, outs, stock,
                       unmet[CHOOSE k \in failing : \A m \in failing : k <= m])

(* lines 161-168: one list of Exec per unmet need, one Exec per process    *)
(* that makes the needed stock.                                            *)
Matrices(cat, outs, parent_process, stock) ==
    LET unmet == Unmet(cat, parent_process, stock)
    IN  [k \in DOMAIN unmet |->
            LET need == unmet[k].name
            IN  [i \in DOMAIN outs[need] |->
                    Exec(outs[need][i],
                         Times(unmet[k].quantity,
                               Item(GProc(cat, outs[need][i]).output, need),
                               stock[need]))]]

(* Node.combinations, line 76, on no list and on one list: meshgrid of no  *)
(* list is empty; of one list x, np.array gives shape (1, len(x)) and the  *)
(* transpose one row per entry of x.                                       *)
Combinations(matrix) ==
    IF matrix = <<>> THEN <<>>
    ELSE [i \in DOMAIN matrix[1] |-> <<matrix[1][i]>>]

(* The dict object node k owns. *)
StockOf(k) == 0 - k

(* Graph(processes, stocks, optimize), lines 91-95: the graph keeps the    *)
(* caller's process and stock objects themselves; heap[0] is that stock.   *)
InitGraph ==
    /\ wood = 0
    /\ heap \in {[o \in {0} |-> s] : s \in SuppliedStocks}
    /\ optimize = <<>>
    /\ delay = 0
    /\ pc = [r \in Runs |-> "idle"]
    /\ sched = [r \in Runs |-> <<>>]
    /\ idx = [r \in Runs |-> 1]
    /\ ref = [r \in Runs |-> r]
    /\ time = [r \in Runs |-> 0]
    /\ fitness = [r \in Runs |-> 0]
    /\ applied = [r \in Runs |-> <<>>]
    /\ ga_pc = "off"
    /\ population = <<>>
    /\ offspring = <<>>
    /\ generation = 0
    /\ ga_error = "none"
    /\ last = NoCall
    /\ g_pc = "new"
    /\ process \in Catalogues
    /\ g_optimize \in Targets
    /\ needs = <<>>
    /\ outputs = <<>>
    /\ nodes = <<>>
    /\ g_error = "none"
    /\ g_result = None
    /\ g_call = "none"
    /\ NoParse

(* Graph.build, lines 131-141. *)
Build ==
    /\ g_pc = "new"
    /\ needs' = Regroup(process, "need")
    /\ outputs' = Regroup(process, "output")
    /\ heap' = [heap EXCEPT ![0] =
                   Setdefault(@, (DOMAIN needs') \cup (DOMAIN outputs'))]
    /\ g_pc' = "built"
    /\ g_call' = "build"
    /\ UNCHANGED <<process, g_optimize, nodes, g_error, g_result>>
    /\ UNCHANGED <<wood, optimize, delay>>
    /\ UNCHANGED runVars
    /\ UNCHANGED parseVars
    /\ UNCHANGED gaVars

(* Graph.sort, lines 122-129. *)
Sort ==
    /\ g_pc = "built"
    /\ needs' = SortGroups(process, needs, "need", FALSE)
    /\ outputs' = SortGroups(process, outputs, "output", TRUE)
    /\ g_pc' = "sorted"
    /\ g_call' = "sort"
    /\ UNCHANGED <<process, g_optimize, nodes, g_error, g_result>>
    /\ UNCHANGED inputVars
    /\ UNCHANGED runVars
    /\ UNCHANGED parseVars
    /\ UNCHANGED gaVars

(* Graph.get_root, lines 143-150: self.outputs[self.optimize] raises       *)
(* KeyError when no process makes the stock; else the root node holds one  *)
(* Exec per such process and a deep copy of the graph's stock.             *)
GetRoot ==
    /\ g_pc = "sorted"
    /\ IF g_optimize \notin DOMAIN outputs
       THEN /\ g_pc' = "raised"
            /\ g_error' = "KeyError"
            /\ UNCHANGED <<nodes, heap>>
       ELSE /\ nodes' = << Node([i \in DOMAIN outputs[g_optimize] |->
                                    Exec(outputs[g_optimize][i], 1)],
                                StockOf(1), 0) >>
            /\ heap' = Bind(heap, StockOf(1), heap[0])
            /\ g_pc' = "rooted"
            /\ g_error' = g_error
    /\ g_call' = "get_root"
    /\ UNCHANGED <<process, g_optimize, needs, outputs, g_result>>
    /\ UNCHANGED <<wood, optimize, delay>>
    /\ UNCHANGED runVars
    /\ UNCHANGED parseVars
    /\ UNCHANGED gaVars

(* A child placed at the depth of its parent. *)
ChildDepthSame(depth) == depth

(* line 171: a child is made at depth + 1. *)
ChildDepth(depth) == depth + 1

RECURSIVE BindAll(_, _, _, _)
(* deepcopy(stock) once per new node, line 171: the objects of the nodes   *)
(* first + 1 .. first + n, each holding v.                                 *)
BindAll(h, first, n, v) ==
    IF n = 0 THEN h ELSE Bind(BindAll(h, first, n - 1, v), StockOf(first + n), v)

(* Graph.get_process_children(parent_process, depth, stock), lines         *)
(* 152-173, called for the k-th process of the root node with the root's   *)
(* depth and stock.                                                        *)
GetProcessChildren(k) ==
    /\ g_pc = "rooted"
    /\ k \in DOMAIN nodes[1].plist
    /\ LET parent == nodes[1]
           stock == heap[parent.stock]
           error == MatricesError(process, outputs, parent.plist[k], stock)
           combinations == Combinations(Matrices(process, outputs, parent.plist[k], stock))
       IN  IF error # "none"
           THEN /\ g_pc' = "raised"
                /\ g_error' = error
                /\ UNCHANGED <<nodes, heap>>
           ELSE /\ nodes' = nodes \o
                       [x \in DOMAIN combinations |->
                           Node(combinations[x], StockOf(Len(nodes) + x), ChildDepth(parent.depth))]
                /\ heap' = BindAll(heap, Len(nodes), Len(combinations), stock)
                /\ g_pc' = "expanded"
                /\ g_error' = g_error
    /\ g_call' = "get_process_children"
    /\ UNCHANGED <<process, g_optimize, needs, outputs, g_result>>
    /\ UNCHANGED <<wood, optimize, delay>>
    /\ UNCHANGED runVars
    /\ UNCHANGED parseVars
    /\ UNCHANGED gaVars

(* What get_children raises for a parent, lines 183-197: the first error  *)
(* of a get_process_children call; ValueError from max() of line 187 on an *)
(* empty list, which is there when the parent holds no process or a        *)
(* process has no children; TypeError from sum() of line 197 when the      *)
(* parent holds two processes or more, for then Node.combinations of line  *)
(* 192 is an array of three axes or more and each of its rows is a list of *)
(* lists, which sum() cannot add to 0.                                     *)
ChildrenError(cat, outs, parent, stock) ==
    LET plist == parent.plist
        error(k) == MatricesError(cat, outs, plist[k], stock)
        failing == {k \in DOMAIN plist : error(k) # "none"}
    IN  IF failing # {}
        THEN error(CHOOSE k \in failing : \A m \in failing : k <= m)
        ELSE IF plist = <<>>
                \/ \E k \in DOMAIN plist :
                      Combinations(Matrices(cat, outs, plist[k], stock)) = <<>>
        THEN "ValueError"
        ELSE IF Len(plist) >= 2 THEN "TypeError"
        ELSE "none"

(* Graph.get_children(parent), lines 175-199, called for the root node.    *)
(* For a parent of one process each row of line 192 holds one node, and    *)
(* sum() of one node is that node (Node.__radd__, line 53): the children   *)
(* are the nodes get_process_children made.                                *)
GetChildren ==
    /\ g_pc = "rooted"
    /\ LET parent == nodes[1]
           stock == heap[parent.stock]
           error == ChildrenError(process, outputs, parent, stock)
           combinations == Combinations(Matrices(process, outputs, parent.plist[1], stock))
       IN  IF error # "none"
           THEN /\ g_pc' = "raised"
                /\ g_error' = error
                /\ UNCHANGED <<nodes, heap>>
           ELSE /\ nodes' = nodes \o
                       [x \in DOMAIN combinations |->
                           Node(combinations[x], StockOf(Len(nodes) + x), ChildDepth(parent.depth))]
                /\ heap' = BindAll(heap, Len(nodes), Len(combinations), stock)
                /\ g_pc' = "children"
                /\ g_error' = g_error
    /\ g_call' = "get_children"
    /\ UNCHANGED <<process, g_optimize, needs, outputs, g_result>>
    /\ UNCHANGED <<wood, optimize, delay>>
    /\ UNCHANGED runVars
    /\ UNCHANGED parseVars
    /\ UNCHANGED gaVars

(* Node.__add__, line 50: Node(plist, stock, depth) is called with         *)
(* self.depth in the place of stock and self.stock in the place of depth.  *)
NodeAdd(self, other) == Node(self.plist \o other.plist, self.depth, self.stock)

(* Node.__radd__, lines 52-53. *)
NodeRadd(self, other) == IF other = 0 THEN self ELSE NodeAdd(self, other)

(* sum([a, b]): 0 + a is a.__radd__(0), then the result + b. *)
SumOfTwo(a, b) == NodeAdd(NodeRadd(a, 0), b)

(* sum() of two of the child nodes made so far, as line 197 sums nodes. *)
SumNodes(x, y) ==
    /\ g_pc \in {"expanded", "children"}
    /\ x \in DOMAIN nodes
    /\ y \in DOMAIN nodes
    /\ nodes' = Append(nodes, SumOfTwo(nodes[x], nodes[y]))
    /\ g_pc' = "summed"
    /\ g_call' = "sum"
    /\ UNCHANGED <<process, g_optimize, needs, outputs, g_error, g_result>>
    /\ UNCHANGED inputVars
    /\ UNCHANGED runVars
    /\ UNCHANGED parseVars
    /\ UNCHANGED gaVars

(* The values of max_cycle get_sequences is called with. *)
MaxCycles == {1, 2, 10000}

(* Graph.get_sequences(max_cycle), lines 201-208: the body is `pass`, so   *)
(* the call makes no node and returns None whatever max_cycle is.          *)
GetSequences(max_cycle) ==
    /\ g_pc \in {"rooted", "expanded", "children"}
    /\ g_result' = None
    /\ g_pc' = "returned"
    /\ g_call' = "get_sequences"
    /\ UNCHANGED <<process, g_optimize, needs, outputs, nodes, g_error>>
    /\ UNCHANGED inputVars
    /\ UNCHANGED runVars
    /\ UNCHANGED parseVars
    /\ UNCHANGED gaVars

NextGraph ==
    \/ Build
    \/ Sort
    \/ GetRoot
    \/ \E k \in DOMAIN Workshop : GetProcessChildren(k)
    \/ GetChildren
    \/ \E x, y \in 2 .. (Len(Forest) + 1) : SumNodes(x, y)
    \/ \E max_cycle \in MaxCycles : GetSequences(max_cycle)

SpecGraph == InitGraph /\ [][NextGraph]_vars

(***************************************************************************)
(* The operations of genetic_algo.py called one by one on a population     *)
(***************************************************************************)

(* The Schedule objects that exist: the population and the child made by   *)
(* the latest crossover, as in reproduce, lines 141-147.                   *)
Held == population \o offspring

InitCalls ==
    /\ wood = 10
    /\ heap = [o \in {0} |-> ParseLinesStocks(wood)]
    /\ optimize = <<"plank">>
    /\ delay = 12
    /\ pc = [r \in Runs |-> "idle"]
    /\ sched = [r \in Runs |-> <<>>]
    /\ idx = [r \in Runs |-> 1]
    /\ ref = [r \in Runs |-> r]
    /\ time = [r \in Runs |-> 0]
    /\ fitness = [r \in Runs |-> 0]
    /\ applied = [r \in Runs |-> <<>>]
    /\ ga_pc = "new"
    /\ population = <<>>
    /\ offspring = <<>>
    /\ generation = 0
    /\ ga_error = "none"
    /\ last = NoCall
    /\ NoGraph
    /\ NoParse

(* initialize_population(num_schedules, ...), lines 74-103. *)
InitializePopulationCall ==
    /\ ga_pc = "new"
    /\ \E draw \in [1..NumSchedules -> Samples] :
          population' = [i \in 1..NumSchedules |->
                            Schedule(draw[i], i, optimize, delay)]
    /\ heap' = [o \in 0..NumSchedules |-> heap[0]]
    /\ ga_pc' = "ready"
    /\ last' = [NoCall EXCEPT !.op = "initialize_population"]
    /\ UNCHANGED <<offspring, generation, ga_error>>
    /\ UNCHANGED <<wood, optimize, delay>>
    /\ UNCHANGED runVars
    /\ UNCHANGED parseVars
    /\ UNCHANGED graphVars

(* child = parent1.crossover(parent2), lines 44-60, for two schedules of   *)
(* the population as in lines 142-144: it raises ValueError at line 49 or  *)
(* makes a child, which takes the place of the child before it.            *)
CrossoverCall ==
    /\ ga_pc = "ready"
    /\ \E a, b \in DOMAIN population :
          LET call == [NoCall EXCEPT !.op = "crossover", !.self = a, !.other = b]
          IN  IF CrossoverPoints(population[a]) = {}
              THEN /\ last' = [call EXCEPT !.error = "ValueError"]
                   /\ UNCHANGED offspring
              ELSE \E c \in CrossoverPoints(population[a]) :
                      /\ offspring' = <<Crossover(population[a], population[b], c)>>
                      /\ last' = [call EXCEPT !.c = c]
    /\ UNCHANGED <<ga_pc, population, generation, ga_error>>
    /\ UNCHANGED inputVars
    /\ UNCHANGED runVars
    /\ UNCHANGED parseVars
    /\ UNCHANGED graphVars

(* schedule.mutate(), lines 62-71, for one of the schedules that exist:    *)
(* i and j are drawn independently by random.randint.                      *)
MutateCall ==
    /\ ga_pc = "ready"
    /\ \E a \in DOMAIN Held : \E i, j \in 0 .. (Len(Held[a].processes) - 1) :
          LET mutated == Mutate(Held[a], i, j)
          IN  /\ population' = IF a <= Len(population)
                               THEN [population EXCEPT ![a] = mutated]
                               ELSE population
              /\ offspring' = IF a <= Len(population) THEN offspring
                              ELSE <<mutated>>
              /\ last' = [NoCall EXCEPT !.op = "mutate", !.self = a, !.i = i, !.j = j]
    /\ UNCHANGED <<ga_pc, generation, ga_error>>
    /\ UNCHANGED inputVars
    /\ UNCHANGED runVars
    /\ UNCHANGED parseVars
    /\ UNCHANGED graphVars

(* selection(population, num_parents), lines 106-127. *)
SelectionCall ==
    /\ ga_pc = "ready"
    /\ \E n \in 1..NumSchedules :
          LET out == Selection(population, SelectionParams)
          IN  last' = [NoCall EXCEPT !.op = "selection", !.num_parents = n,
                                     !.error = out.error, !.parents = out.parents]
    /\ UNCHANGED <<ga_pc, population, offspring, generation, ga_error>>
    /\ UNCHANGED inputVars
    /\ UNCHANGED runVars
    /\ UNCHANGED parseVars
    /\ UNCHANGED graphVars

NextCalls == InitializePopulationCall \/ CrossoverCall \/ MutateCall \/ SelectionCall

SpecCalls == InitCalls /\ [][NextCalls]_vars

(* Mutations alone, on the schedules initialize_population made. *)
NextMutate == InitializePopulationCall \/ MutateCall

SpecMutate == InitCalls /\ [][NextMutate]_vars

(***************************************************************************)
(* parse_lines: parser.py                                                  *)
(***************************************************************************)

(* The longest configuration file read. *)
MaxLines == 4

(* A line of a configuration file, by how it is written:                    *)
(*   "stock"     name:quantity                                              *)
(*   "process"   name:(need;...):(output;...):time                          *)
(*   "optimize"  optimize:(target;...)                                      *)
(*   "word"      name                                                       *)
Line(shape, n, q, need, output, t, targets) ==
    [shape |-> shape, name |-> n, quantity |-> q, need |-> need,
     output |-> output, time |-> t, targets |-> targets]

StockLine(n, q) == Line("stock", n, q, <<>>, <<>>, 0, <<>>)

ProcessLine(p) == Line("process", p.name, 0, p.need, p.output, p.time, <<>>)

OptimizeLine(targets) == Line("optimize", "optimize", 0, <<>>, <<>>, 0, targets)

WordLine(n) == Line("word", n, 0, <<>>, <<>>, 0, <<>>)

(* The lines a file is made of:                                             *)
(*   wood:3   plank:2   optimize_me:3   wood                                *)
(*   MakePlank:(wood:2):(plank:1):5     Coppice:(wood:1):(wood:2):4         *)
(*   optimize:(plank)   optimize:(time)   optimize:(wood;plank)             *)
Lines ==
    { StockLine("wood", 3), StockLine("plank", 2), StockLine("optimize_me", 3),
      WordLine("wood"),
      ProcessLine(Processes[1]), ProcessLine(Processes[2]),
      OptimizeLine(<<"plank">>), OptimizeLine(<<"time">>),
      OptimizeLine(<<"wood", "plank">>) }

RECURSIVE FilesOfLength(_)
FilesOfLength(n) ==
    IF n = 0 THEN {<<>>}
    ELSE {Append(f, l) : f \in FilesOfLength(n - 1), l \in Lines}

(* The files given to parse_lines: every list of at most MaxLines lines. *)
Files == UNION {FilesOfLength(n) : n \in 0 .. MaxLines}

(* 'optimize' in line *)
ContainsOptimize(line) ==
    line.shape = "optimize" \/ line.name \in {"optimize_me"}

(* '(' in line *)
ContainsParen(line) == line.shape \in {"process", "optimize"}

(* parse_stock: re.match(r"(\w+):(\d+)", stock) finds name:quantity. *)
ParseStockError(line) ==
    IF line.shape = "stock" THEN "none" ELSE "ValueError"

ParseStock(line) == Stock(line.name, line.quantity)

(* parse_process: the four groups of the line, need and output split at ";" *)
(* and given to parse_stock.                                                *)
ParseProcessError(line) ==
    IF line.shape = "process" /\ line.need # <<>> /\ line.output # <<>>
    THEN "none" ELSE "ValueError"

ParseProcess(line) == Process(line.name, line.need, line.output, line.time)

(* Python's == between a list and a str: never equal. *)
ListEqualsStr(list, str) == FALSE

(* parse_optimize: the line has to match ^optimize:\(([\w;]+)\)$, and then  *)
(* each target is looked up in stocks when `optimize != "time"`, where      *)
(* optimize is by then the LIST of targets.                                 *)
ParseOptimizeError(stocks, line) ==
    IF ~(line.shape = "optimize" /\ line.targets # <<>>) THEN "ValueError"
    ELSE IF \E k \in DOMAIN line.targets :
                /\ ~ListEqualsStr(line.targets, "time")
                /\ line.targets[k] \notin DOMAIN stocks
         THEN "ValueError"
         ELSE "none"

ParseOptimize(stocks, line) == line.targets

(* stocks[stock.name] = stock.quantity *)
SetItem(stocks, n, q) ==
    [m \in (DOMAIN stocks) \cup {n} |-> IF m = n THEN q ELSE stocks[m]]

(* A stock line is taken in whatever status the loop is. *)
ExpectStockAlways(status) == TRUE

(* `if status != "stock": raise`: a stock line is taken in status "stock". *)
ExpectStock(status) == status = "stock"

InitParse ==
    /\ wood = 0
    /\ heap = [o \in {0} |-> <<>>]
    /\ optimize = <<>>
    /\ delay = 0
    /\ pc = [r \in Runs |-> "idle"]
    /\ sched = [r \in Runs |-> <<>>]
    /\ idx = [r \in Runs |-> 1]
    /\ ref = [r \in Runs |-> r]
    /\ time = [r \in Runs |-> 0]
    /\ fitness = [r \in Runs |-> 0]
    /\ applied = [r \in Runs |-> <<>>]
    /\ ga_pc = "off"
    /\ population = <<>>
    /\ offspring = <<>>
    /\ generation = 0
    /\ ga_error = "none"
    /\ last = NoCall
    /\ NoGraph
    /\ p_pc = "lines"
    /\ p_file \in Files
    /\ p_line = 0
    /\ p_status = "stock"
    /\ p_stocks = <<>>
    /\ p_processes = <<>>
    /\ p_optimize = <<>>
    /\ p_error = "none"
    /\ p_call = "none"

(* An exception leaves parse_lines: nothing is returned. *)
ParseRaise(call) ==
    /\ p_pc' = "raised"
    /\ p_error' = "ValueError"
    /\ p_call' = call
    /\ UNCHANGED <<p_status, p_stocks, p_processes, p_optimize>>

(* One turn of the loop `for line in file`. *)
ParseLine ==
    /\ p_pc = "lines"
    /\ p_line < Len(p_file)
    /\ p_line' = p_line + 1
    /\ LET line == p_file[p_line + 1]
       IN  IF ContainsOptimize(line)
           THEN IF p_processes = <<>> \/ p_status # "process"
                THEN ParseRaise("none")
                ELSE IF ParseOptimizeError(p_stocks, line) # "none"
                THEN ParseRaise("parse_optimize")
                ELSE /\ p_status' = "optimize"
                     /\ p_optimize' = ParseOptimize(p_stocks, line)
                     /\ p_call' = "parse_optimize"
                     /\ UNCHANGED <<p_pc, p_error, p_stocks, p_processes>>
           ELSE IF ContainsParen(line)
           THEN IF p_status = "optimize"
                THEN ParseRaise("none")
                ELSE IF ParseProcessError(line) # "none"
                THEN ParseRaise("parse_process")
                ELSE /\ p_status' = "process"
                     /\ p_processes' = Append(p_processes, ParseProcess(line))
                     /\ p_stocks' = UpdateStocksQuantity(p_stocks, ParseProcess(line))
                     /\ p_call' = "parse_process"
                     /\ UNCHANGED <<p_pc, p_error, p_optimize>>
           ELSE IF ~ExpectStock(p_status)
                THEN ParseRaise("none")
                ELSE IF ParseStockError(line) # "none"
                THEN ParseRaise("parse_stock")
                ELSE /\ p_status' = "stock"
                     /\ p_stocks' = SetItem(p_stocks, ParseStock(line).name,
                                            ParseStock(line).quantity)
                     /\ p_call' = "parse_stock"
                     /\ UNCHANGED <<p_pc, p_error, p_processes, p_optimize>>
    /\ UNCHANGED p_file
    /\ UNCHANGED inputVars
    /\ UNCHANGED runVars
    /\ UNCHANGED gaVars
    /\ UNCHANGED graphVars

(* The file is read: the checks after the loop, and the return. *)
ParseEnd ==
    /\ p_pc = "lines"
    /\ p_line = Len(p_file)
    /\ IF p_processes = <<>> \/ p_status # "optimize"
       THEN /\ p_pc' = "raised"
            /\ p_error' = "ValueError"
       ELSE /\ p_pc' = "returned"
            /\ p_error' = "none"
    /\ p_call' = "none"
    /\ UNCHANGED <<p_file, p_line, p_status, p_stocks, p_processes, p_optimize>>
    /\ UNCHANGED inputVars
    /\ UNCHANGED runVars
    /\ UNCHANGED gaVars
    /\ UNCHANGED graphVars

NextParse == ParseLine \/ ParseEnd

SpecParse == InitParse /\ [][NextParse]_vars

(***************************************************************************)
(* Properties of Simulator.simulate                                        *)
(***************************************************************************)

Running(r) == pc[r] \in {"check", "apply"}

(* The process at the current position of run r. *)
Cur(r) == Proc(sched[r][idx[r]])

(* Run r takes a step of its loop. *)
Moved(r) == <<pc[r], idx[r]>>' # <<pc[r], idx[r]>>

(* The running ledger of run r. *)
Ledger(r) == heap[ref[r]]

(* The ledger as the configuration gives it: §3 "Ledger". *)
InitialLedger == ParseLinesStocks(wood)

(* availability(process, ledger) of §4.1 *)
Availability(p, ledger) ==
    \A i \in DOMAIN p.need : ledger[p.need[i].name] >= p.need[i].quantity

RECURSIVE Total(_, _, _)
(* The summed quantity of the entries of a stock list that name n. *)
Total(list, i, n) ==
    IF i > Len(list) THEN 0
    ELSE (IF list[i].name = n THEN list[i].quantity ELSE 0) + Total(list, i + 1, n)

RECURSIVE NetOf(_, _, _, _)
(* Outputs minus needs of stock n over the applied positions app of s. *)
NetOf(s, app, i, n) ==
    IF i > Len(app) THEN 0
    ELSE LET p == Proc(s[app[i]])
         IN  Total(p.output, 1, n) - Total(p.need, 1, n) + NetOf(s, app, i + 1, n)

RECURSIVE GainOf(_, _, _)
(* Optimized output of every applied position. *)
GainOf(s, app, i) ==
    IF i > Len(app) THEN 0
    ELSE Gain(Proc(s[app[i]]), optimize) + GainOf(s, app, i + 1)

RECURSIVE GainWithin(_, _, _, _)
(* Optimized output of the applied positions that end within the delay. *)
GainWithin(s, app, i, t) ==
    IF i > Len(app) THEN 0
    ELSE LET p == Proc(s[app[i]])
             t2 == t + p.time
         IN  (IF t2 <= delay THEN Gain(p, optimize) ELSE 0) + GainWithin(s, app, i + 1, t2)

Last(s) == s[Len(s)]

ThreePlanks == <<"MakePlank", "MakePlank", "MakePlank">>

(* C1: budget boundary. While the cumulative duration of the applied       *)
(* invocations is <= delay, the walk goes on and every available           *)
(* invocation is applied; the first applied invocation that takes the      *)
(* cumulative duration over the delay is the last one applied, and the run *)
(* ends there.                                                             *)
C1_Step(r) ==
    /\ Running(r) => time[r] <= delay
    /\ (pc[r] = "check" /\ Moved(r) /\ Availability(Cur(r), Ledger(r)))
          => pc'[r] = "apply" /\ idx'[r] = idx[r]
    /\ (pc[r] = "apply" /\ Moved(r)) =>
          /\ applied'[r] = Append(applied[r], idx[r])
          /\ time'[r] = time[r] + Cur(r).time
          /\ IF time'[r] > delay THEN pc'[r] = "done"
             ELSE IF idx[r] < Len(sched[r])
                  THEN pc'[r] = "check" /\ idx'[r] = idx[r] + 1
                  ELSE pc'[r] = "done"
    /\ (pc[r] = "done" /\ time[r] > delay) =>
          /\ applied[r] # <<>>
          /\ time[r] - Proc(sched[r][Last(applied[r])]).time <= delay
          /\ Moved(r) => applied'[r] = <<>>

C1_BudgetBoundary == [][\A r \in Runs : C1_Step(r)]_vars

(* C1 witness: a run ended by an overrun after one invocation within the   *)
(* delay, with an invocation of the schedule left unprocessed.             *)
C1_Witness ==
    \E r \in Runs : /\ pc[r] = "done" /\ time[r] > delay
                    /\ Len(applied[r]) = 2 /\ idx[r] < Len(sched[r])

(* C2: ledger non-negativity. Every quantity of every ledger is >= 0 in    *)
(* every state simulate reaches.                                           *)
C2_NonNegative == \A o \in DOMAIN heap : \A n \in DOMAIN heap[o] : heap[o][n] >= 0

(* C3 as stated: the fitness is the optimized output of every invocation   *)
(* that was applied to the ledger.                                         *)
C3_FitnessOfApplied ==
    \A r \in Runs : pc[r] = "done" => fitness[r] = GainOf(sched[r], applied[r], 1)

(* C3 amended: the fitness is the optimized output of the applied          *)
(* invocations whose cumulative duration is within the delay; the applied  *)
(* invocation that overruns the delay adds nothing.                        *)
C3_FitnessWithinDelay ==
    \A r \in Runs : fitness[r] = GainWithin(sched[r], applied[r], 1, 0)

(* C3 witness: a finished run whose last applied invocation overran the    *)
(* delay and outputs an optimized stock.                                   *)
C3_Witness ==
    \E r \in Runs : /\ pc[r] = "done" /\ time[r] > delay /\ fitness[r] > 0
                    /\ Gain(Proc(sched[r][Last(applied[r])]), optimize) > 0

(* C4: skipping. An unavailable invocation leaves ledger, elapsed time and *)
(* fitness as they are and the walk goes on with the next invocation; the  *)
(* schedule [MakePlank] on wood:1 ends with fitness 0 and the ledger       *)
(* unchanged.                                                              *)
C4_Step(r) ==
    /\ (pc[r] = "check" /\ Moved(r) /\ ~Availability(Cur(r), Ledger(r))) =>
          /\ heap'[ref'[r]] = Ledger(r)
          /\ time'[r] = time[r] /\ fitness'[r] = fitness[r] /\ applied'[r] = applied[r]
          /\ IF idx[r] < Len(sched[r])
             THEN pc'[r] = "check" /\ idx'[r] = idx[r] + 1
             ELSE pc'[r] = "done"
    /\ (wood' = 1 /\ sched'[r] = <<"MakePlank">> /\ pc'[r] = "done") =>
          /\ fitness'[r] = 0 /\ time'[r] = 0 /\ applied'[r] = <<>>
          /\ heap'[ref'[r]] = [n \in {"wood", "plank"} |-> IF n = "wood" THEN 1 ELSE 0]

C4_Skipping == [][\A r \in Runs : C4_Step(r)]_vars

(* C4 witness: the first invocation was skipped and the second applied. *)
C4_Witness ==
    \E r \in Runs : pc[r] = "done" /\ Len(sched[r]) = 2 /\ applied[r] = <<2>>

C5_Case(r) ==
    /\ wood = 10 /\ delay = 12 /\ optimize = <<"plank">>
    /\ sched[r] = ThreePlanks /\ pc[r] = "done"

(* C5 as stated: budget 12, three MakePlank from wood:10 give elapsed time *)
(* 10, two executed, fitness 2, and the third is not applied.              *)
C5_AsStated ==
    \A r \in Runs : C5_Case(r) =>
        /\ time[r] = 10 /\ Len(applied[r]) = 2 /\ fitness[r] = 2
        /\ Ledger(r)["wood"] = 6 /\ Ledger(r)["plank"] = 2

(* C5 amended: the third invocation is applied and ends the run: elapsed   *)
(* time 15, three applied, fitness 2, final ledger wood:4, plank:3.        *)
C5_OverBudget ==
    \A r \in Runs : C5_Case(r) =>
        /\ time[r] = 15 /\ applied[r] = <<1, 2, 3>> /\ fitness[r] = 2
        /\ Ledger(r)["wood"] = 4 /\ Ledger(r)["plank"] = 3

C5_Witness == \E r \in Runs : C5_Case(r)

(* C6: ledger conservation. The running ledger is the initial ledger minus *)
(* the needs plus the outputs of the invocations applied so far; budget 20 *)
(* and three MakePlank from wood:10 give elapsed time 15, three executed,  *)
(* fitness 3 and the ledger wood:4, plank:3.                               *)
C6_Conservation ==
    \A r \in Runs : pc[r] # "idle" =>
        /\ DOMAIN Ledger(r) = DOMAIN InitialLedger
        /\ \A n \in DOMAIN InitialLedger :
              Ledger(r)[n] = InitialLedger[n] + NetOf(sched[r], applied[r], 1, n)
        /\ (/\ wood = 10 /\ delay = 20 /\ optimize = <<"plank">>
            /\ sched[r] = ThreePlanks /\ pc[r] = "done") =>
              /\ time[r] = 15 /\ Len(applied[r]) = 3 /\ fitness[r] = 3
              /\ Ledger(r)["wood"] = 4 /\ Ledger(r)["plank"] = 3

C6_Witness ==
    \E r \in Runs : /\ wood = 10 /\ delay = 20 /\ optimize = <<"plank">>
                    /\ sched[r] = ThreePlanks /\ pc[r] = "done"

(* C7: determinism and purity. No step of simulate changes the simulator's *)
(* stocks, its optimize list or the schedule of a run in progress, and two *)
(* calls that returned for the same schedule returned the same fitness.    *)
C7_Step ==
    /\ heap'[0] = heap[0]
    /\ heap'[0] = InitialLedger
    /\ optimize' = optimize
    /\ \A r \in Runs : Running(r) => sched'[r] = sched[r]
    /\ \A r1, r2 \in Runs :
          (pc'[r1] = "done" /\ pc'[r2] = "done" /\ sched'[r1] = sched'[r2])
             => fitness'[r1] = fitness'[r2]

C7_Deterministic == [][C7_Step]_vars

(* C7 witness: both calls returned for the same schedule, having applied   *)
(* something.                                                              *)
C7_Witness ==
    /\ pc[1] = "done" /\ pc[2] = "done" /\ sched[1] = sched[2]
    /\ applied[1] # <<>> /\ applied[2] # <<>>

C8_Case(r) == pc[r] = "done" /\ Len(sched[r]) = 1

(* C8 as stated: p is available iff simulating [p] decreases every needed  *)
(* stock by exactly its needed quantity, not below zero, and increases     *)
(* every output stock by exactly its produced quantity.                    *)
C8_AsStated ==
    \A r \in Runs : C8_Case(r) =>
        LET p == Proc(sched[r][1])
        IN  Availability(p, InitialLedger) <=>
              /\ \A i \in DOMAIN p.need :
                    /\ Ledger(r)[p.need[i].name]
                          = InitialLedger[p.need[i].name] - p.need[i].quantity
                    /\ Ledger(r)[p.need[i].name] >= 0
              /\ \A i \in DOMAIN p.output :
                    Ledger(r)[p.output[i].name]
                       = InitialLedger[p.output[i].name] + p.output[i].quantity

(* What simulate does with a one-process schedule [p]: p is applied iff it *)
(* is available; when applied, every stock changes by exactly the sum of   *)
(* p's output quantities of it minus the sum of p's need quantities of it, *)
(* and otherwise the ledger is unchanged.                                  *)
C8_AvailableIffApplied ==
    \A r \in Runs : C8_Case(r) =>
        LET p == Proc(sched[r][1])
        IN  /\ Availability(p, InitialLedger) <=> applied[r] = <<1>>
            /\ applied[r] = <<1>> =>
                  \A n \in DOMAIN InitialLedger :
                     Ledger(r)[n] = InitialLedger[n] + Total(p.output, 1, n)
                                    - Total(p.need, 1, n)
            /\ applied[r] # <<1>> => applied[r] = <<>> /\ Ledger(r) = InitialLedger

(* A one-process schedule of a process that names a stock twice in its     *)
(* needs was applied to a ledger that holds less than the two together.    *)
C8_Witness ==
    \E r \in Runs :
        /\ C8_Case(r) /\ sched[r] = <<"Joint">> /\ applied[r] = <<1>>
        /\ Ledger(r)["wood"] < 0

(* C9: interleaved runs do not interfere. Every run returns what it would  *)
(* return alone, and the shared initial stocks are never written.          *)
C9_NoInterference ==
    /\ heap[0] = InitialLedger
    /\ \A r \in Runs : pc[r] = "done" =>
          fitness[r] = SimAlone(sched[r], 1, InitialLedger, 0, 0, delay, optimize)

(* C9 witness: one run returned a positive fitness while the other, on     *)
(* another ledger, is in the middle of its schedule.                       *)
C9_Witness ==
    /\ pc[1] = "done" /\ fitness[1] > 0
    /\ pc[2] = "apply" /\ applied[2] # <<>> /\ heap[ref[2]] # heap[ref[1]]

(***************************************************************************)
(* Properties of genetic_algorithm                                         *)
(***************************************************************************)

(* The fitness of member i of a population. *)
FitnessOf(pop, i) == ScheduleFitness(pop[i], heap[pop[i].stocks])

(* C10: elitist result. The selection step of a generation ends without an *)
(* error and leaves a population of exactly NumSchedules schedules, each   *)
(* one of the schedules evaluated in that generation and none of lower     *)
(* fitness than a schedule that was dropped, so the best fitness of the    *)
(* population does not decrease.                                           *)
C10_Step ==
    (ga_pc = "selection" /\ ga_pc' # "selection") =>
        /\ ga_error' = "none"
        /\ Len(population') = NumSchedules
        /\ \A k \in DOMAIN population' : \E i \in DOMAIN population :
              population'[k] = population[i]
        /\ \A i \in DOMAIN population :
              (\A k \in DOMAIN population' : population'[k] # population[i]) =>
                 \A k \in DOMAIN population' :
                    ScheduleFitness(population'[k], heap[population'[k].stocks])
                       >= FitnessOf(population, i)

C10_Elitist == [][C10_Step]_vars

(***************************************************************************)
(* Properties of Schedule.fitness                                          *)
(***************************************************************************)

(* The Schedule object that run r simulates: its processes, with the       *)
(* stocks, optimize and delay the simulator was built with.                *)
ScheduleOf(r) == Schedule(sched[r], 0, optimize, delay)

(* C11: schedule fitness refines simulation. For a schedule whose          *)
(* simulation has returned, Schedule.fitness() is the fitness simulate     *)
(* returned for it from the same stocks, optimize and delay, plus a bonus  *)
(* that is not negative and is zero when the summed time of the schedule's *)
(* processes is above the delay.                                           *)
C11_FitnessRefinesSimulation ==
    \A r \in Runs : pc[r] = "done" =>
        LET bonus == ScheduleFitness(ScheduleOf(r), heap[0]) - fitness[r]
        IN  IF TotalTime(sched[r], 1) <= delay THEN bonus >= 0 ELSE bonus = 0

(***************************************************************************)
(* Properties of the ledgers held by schedules                             *)
(***************************************************************************)

(* C12: ledger ownership. No two distinct Schedule objects hold the same   *)
(* stocks dict, and none holds the dict that was handed to the algorithm,  *)
(* so a write to one ledger is not visible through another schedule.       *)
C12_LedgerOwnership ==
    /\ \A i \in DOMAIN Held : Held[i].stocks # 0
    /\ \A i, j \in DOMAIN Held : i # j => Held[i].stocks # Held[j].stocks

(***************************************************************************)
(* Properties of Graph                                                     *)
(***************************************************************************)

(* C13: shared inputs are read-only. No step of build, sort, get_root and  *)
(* the expansion changes the catalogue the graph was built with or the     *)
(* stock dict that was handed to it, neither its keys nor its quantities.  *)
C13_SharedInputsReadOnly == [][heap'[0] = heap[0] /\ process' = process]_vars

(* C14: get_sequences, called with a ceiling on the number of nodes,       *)
(* returns the forest built so far: what it returns is not None.           *)
C14_SequencesReturnForest == g_pc = "returned" => g_result # None

(* No process of the catalogue makes the stock to optimize. *)
NoProducer == \A i \in DOMAIN process : ~HasKey(process[i].output, g_optimize)

(* C15: a missing producer is reported. When no process of the catalogue   *)
(* makes the stock to optimize (an empty catalogue included), get_root     *)
(* ends with NoProducerError and no other error, and makes no node.        *)
C15_NoProducerReported ==
    (g_pc \notin {"new", "built", "sorted"} /\ NoProducer) =>
        (g_pc = "raised" /\ g_error = "NoProducerError" /\ nodes = <<>>)

(* The count that makes up what the ledger lacks: the least n with         *)
(* held + n * made >= qty.                                                 *)
TimesForShortfall(qty, made, held) == Ceil(qty - held, made)

(* C20: repetition count in get_process_children. Every Exec of a child of *)
(* the root stands for a producer p of a stock r that a process of the     *)
(* root needs in a quantity q above the root's ledger[r], and its times is *)
(* ceil((q - ledger[r]) / p.output[r]).                                    *)
C20_RepetitionCount ==
    g_pc = "expanded" =>
        LET ledger == heap[nodes[1].stock]
        IN  \A x \in 2..Len(nodes) : \A m \in DOMAIN nodes[x].plist :
               LET e == nodes[x].plist[m]
               IN  \E k \in DOMAIN nodes[1].plist :
                     \E n \in DOMAIN GProc(process, nodes[1].plist[k].name).need :
                        LET need == GProc(process, nodes[1].plist[k].name).need[n]
                        IN  /\ ledger[need.name] < need.quantity
                            /\ HasKey(GProc(process, e.name).output, need.name)
                            /\ e.times = TimesForShortfall(
                                   need.quantity,
                                   Item(GProc(process, e.name).output, need.name),
                                   ledger[need.name])

(***************************************************************************)
(* Properties of crossover, mutate and selection                           *)
(***************************************************************************)

(* The parents of the latest crossover call and the child it made. *)
ParentA == population[last.self]

ParentB == population[last.other]

Child == offspring[1]

Min(x, y) == IF x <= y THEN x ELSE y

(* C16: crossover cut. For parents A and B of two processes or more, the   *)
(* cut c is in 1 .. min(len(A), len(B)) - 1 and the child's list is A's    *)
(* first c processes followed by B's from c on, so that both parents give  *)
(* the child a process; the parents' lists are as they were.               *)
C16_CrossoverCut ==
    (/\ last.op = "crossover"
     /\ Len(ParentA.processes) >= 2
     /\ Len(ParentB.processes) >= 2) =>
        /\ last.error = "none"
        /\ last.c >= 1
        /\ last.c <= Min(Len(ParentA.processes), Len(ParentB.processes)) - 1
        /\ Len(Child.processes) = Len(ParentB.processes)
        /\ \A k \in DOMAIN Child.processes :
              Child.processes[k] = IF k <= last.c THEN ParentA.processes[k]
                                   ELSE ParentB.processes[k]

(* C17: degenerate crossover. When a parent holds a single process, the    *)
(* call raises no error and the child's list equals one parent's list.     *)
C17_DegenerateCrossover ==
    (/\ last.op = "crossover"
     /\ (Len(ParentA.processes) = 1 \/ Len(ParentB.processes) = 1)) =>
        /\ last.error = "none"
        /\ Child.processes \in {ParentA.processes, ParentB.processes}

(* How often process n is in the list s. *)
Count(s, n) == Cardinality({k \in DOMAIN s : s[k] = n})

(* A step that is a call of mutate swaps the processes at the two drawn    *)
(* positions of the schedule, which differ if `distinct`; length and       *)
(* multiset stay, every other position and every other schedule too.       *)
C18_Step(distinct) ==
    (last'.op = "mutate") =>
        LET a == last'.self
            i == last'.i + 1
            j == last'.j + 1
            before == Held[a].processes
            after == Held'[a].processes
        IN  /\ distinct => i # j
            /\ Len(after) = Len(before)
            /\ \A n \in ProcNames : Count(after, n) = Count(before, n)
            /\ after[i] = before[j]
            /\ after[j] = before[i]
            /\ \A k \in DOMAIN before : k \notin {i, j} => after[k] = before[k]
            /\ Len(Held') = Len(Held)
            /\ \A x \in DOMAIN Held : x # a => Held'[x] = Held[x]
            /\ Held'[a].stocks = Held[a].stocks

(* C18 as stated: mutation is a swap of two distinct positions; length and *)
(* multiset of the schedule are kept, the other positions and the other    *)
(* schedules unchanged.                                                    *)
C18_DistinctPositions == [][C18_Step(TRUE)]_vars

(* C18, amended: mutation is a swap of two positions drawn independently,  *)
(* which may be the same position (then nothing changes); length and       *)
(* multiset of the schedule are kept, the other positions and the other    *)
(* schedules unchanged.                                                    *)
C18_SwapOfPositions == [][C18_Step(FALSE)]_vars

(* A mutation has swapped two different positions of a schedule of three   *)
(* processes, next to another schedule.                                    *)
C18_Witness ==
    /\ last.op = "mutate"
    /\ last.i # last.j
    /\ Len(Held[last.self].processes) = 3
    /\ Len(Held) >= 2

(* C19: roulette-wheel selection is total. A call of selection on a        *)
(* population that is not empty raises no error and returns exactly        *)
(* num_parents schedules, each one a member of the population.             *)
C19_SelectionTotal ==
    (last.op = "selection" /\ population # <<>>) =>
        /\ last.error = "none"
        /\ Len(last.parents) = last.num_parents
        /\ \A k \in DOMAIN last.parents :
              \E m \in DOMAIN population : last.parents[k] = population[m]

(***************************************************************************)
(* Properties of get_children                                              *)
(***************************************************************************)

(* The needs of the processes of the root node that the root's ledger does *)
(* not satisfy, as pairs of the stock name and the needing process.        *)
UnmetNeeds ==
    LET ledger == heap[nodes[1].stock]
        plist == nodes[1].plist
    IN  UNION {{<<GProc(process, plist[k].name).need[n].name, k>> :
                   n \in {m \in DOMAIN GProc(process, plist[k].name).need :
                            ledger[GProc(process, plist[k].name).need[m].name]
                               < GProc(process, plist[k].name).need[m].quantity}} :
               k \in DOMAIN plist}

(* The processes of the catalogue that make stock r. *)
Producers(r) == {i \in DOMAIN process : HasKey(process[i].output, r)}

RECURSIVE ProductOfProducers(_)
(* The product of the numbers of producers over a set of unmet needs. *)
ProductOfProducers(S) ==
    IF S = {} THEN 1
    ELSE LET u == CHOOSE v \in S : TRUE
         IN  Cardinality(Producers(u[1])) * ProductOfProducers(S \ {u})

(* C21: children are the full cartesian product. When the root holds an    *)
(* unmet need and every unmet need has a producer, get_children(root)      *)
(* returns one child per combination of one producer for each unmet need   *)
(* of each process of the root: their number is the product of the numbers *)
(* of producers, and a process whose needs are satisfied takes nothing     *)
(* away from it.                                                           *)
C21_ChildrenAreProduct ==
    (/\ g_call = "get_children"
     /\ UnmetNeeds # {}
     /\ \A u \in UnmetNeeds : Producers(u[1]) # {}) =>
        /\ g_error = "none"
        /\ g_pc = "children"
        /\ Len(nodes) - 1 = ProductOfProducers(UnmetNeeds)

(* C22: child node shape. Every node get_children returned for the root   *)
(* has the depth of the root plus one and owns a stock dict holding what   *)
(* the root's ledger holds. get_children returns for a root of one process *)
(* only, so no returned node is a sum of several: each row of line 197     *)
(* holds one node, and sum() of one node is that node.                     *)
C22_ChildNodeShape ==
    (g_call = "get_children" /\ g_pc = "children") =>
        \A x \in 2..Len(nodes) :
           /\ nodes[x].depth = nodes[1].depth + 1
           /\ nodes[x].stock \in DOMAIN heap
           /\ heap[nodes[x].stock] = heap[nodes[1].stock]
           /\ \A n \in DOMAIN heap[nodes[x].stock] : heap[nodes[x].stock][n] \in Nat

(* C22 witness: get_children returned two children for the root. *)
C22_Witness ==
    /\ g_call = "get_children"
    /\ g_pc = "children"
    /\ Len(nodes) = 3
    /\ Len(nodes[1].plist) = 1

(***************************************************************************)
(* Properties of parse_lines                                               *)
(***************************************************************************)

(* Zero or more stock lines, then one or more process lines, then exactly   *)
(* one optimize line, which is the last line.                               *)
WellOrdered(f) ==
    \E s \in 0 .. Len(f) :
        /\ s + 2 <= Len(f)
        /\ \A i \in 1 .. s : f[i].shape = "stock"
        /\ \A i \in (s + 1) .. (Len(f) - 1) : f[i].shape = "process"
        /\ f[Len(f)].shape = "optimize"

(* A stock line after a process line, a line after the optimize line, an    *)
(* optimize line before any process line, or no optimize line at all.       *)
Misordered(f) ==
    \/ \E i, j \in DOMAIN f : i < j /\ f[i].shape = "process" /\ f[j].shape = "stock"
    \/ \E i, j \in DOMAIN f : i < j /\ f[i].shape = "optimize"
    \/ \E j \in DOMAIN f :
          f[j].shape = "optimize" /\ \A i \in 1 .. (j - 1) : f[i].shape # "process"
    \/ \A j \in DOMAIN f : f[j].shape # "optimize"

(* The resources the process lines of f name in a need or an output. *)
NamedIn(f) ==
    UNION {{f[i].need[k].name : k \in DOMAIN f[i].need}
           \cup {f[i].output[k].name : k \in DOMAIN f[i].output} :
           i \in {j \in DOMAIN f : f[j].shape = "process"}}

(* The stock lines of f that declare n. *)
Declaring(f, n) == {i \in DOMAIN f : f[i].shape = "stock" /\ f[i].name = n}

(* C23: parse_lines returns only for a file of zero or more stock lines,    *)
(* then one or more process lines, then one optimize line as its last line: *)
(* while it reads, the lines read so far are stock lines followed by        *)
(* process lines followed by at most one optimize line; for a file with a   *)
(* stock line after a process line, a line after the optimize line, an      *)
(* optimize line before any process or no optimize line it does not return, *)
(* and when it stops without returning it is with ValueError; when it       *)
(* returns, every resource a process names is a key of the stocks, at 0     *)
(* unless a stock line declared it.                                         *)
C23_LineOrder ==
    /\ p_pc = "returned" =>
          /\ WellOrdered(p_file)
          /\ p_error = "none"
          /\ \A n \in NamedIn(p_file) :
                /\ n \in DOMAIN p_stocks
                /\ Declaring(p_file, n) = {} => p_stocks[n] = 0
                /\ Declaring(p_file, n) # {} =>
                      \E i \in Declaring(p_file, n) : p_stocks[n] = p_file[i].quantity
    /\ (p_pc \in {"lines", "returned"} /\ p_line > 0) =>
          ~Misordered(SubSeq(p_file, 1, p_line))
          \/ (p_pc = "lines" /\ \A j \in 1 .. p_line : p_file[j].shape # "optimize")
    /\ (Misordered(p_file) /\ p_pc # "lines") =>
          p_pc = "raised" /\ p_error = "ValueError"
    /\ p_pc = "raised" => p_error = "ValueError"

(* parse_lines returned for a file with a stock line, where MakePlank names *)
(* the declared wood and the undeclared plank.                              *)
C23_Witness ==
    /\ p_pc = "returned"
    /\ Len(p_file) >= 3
    /\ p_file[1].shape = "stock"
    /\ "plank" \in DOMAIN p_stocks
    /\ p_stocks["plank"] = 0
    /\ p_stocks["wood"] = 3

(* The optimize line parse_optimize was called with in the last turn. *)
OptimizeLineRead == p_file[p_line]

(* C24: parse_optimize, given an optimize line, accepts it exactly when     *)
(* every target is the literal time or a key of the stocks, raising         *)
(* ValueError otherwise, and then returns the targets in the order written. *)
C24_OptimizeTargets ==
    (p_call = "parse_optimize" /\ OptimizeLineRead.shape = "optimize") =>
        LET targets == OptimizeLineRead.targets
            accepted == \A k \in DOMAIN targets :
                            targets[k] = "time" \/ targets[k] \in DOMAIN p_stocks
        IN  /\ accepted => (p_pc = "lines" /\ p_error = "none" /\ p_optimize = targets)
            /\ ~accepted => (p_pc = "raised" /\ p_error = "ValueError")

====
